---- MODULE Spec2Model ----
(***************************************************************************)
(* The person-research workflow of people_researcher: the pydantic_graph   *)
(* nodes GenerateQueries -> Research -> Extract -> Reflect -> {End,        *)
(* GenerateQueries} threading one PersonState, the concurrent search       *)
(* fan-out of Research (asyncio.gather) and the source aggregator          *)
(* deduplicate_and_format_sources.                                         *)
(*                                                                         *)
(* The completion agents and the search client are external: each call     *)
(* returns any value of its declared result type, or raises.  Text is      *)
(* modelled as a sequence of characters; the formatted source block is     *)
(* modelled as the sequence of its per-source entries.                     *)
(***************************************************************************)
EXTENDS Integers, Sequences, FiniteSets, TLC

VARIABLES
    node,             \* the graph node about to run, or "End" / "Raised"
    phase,            \* position inside Research.run: "entry", "gather", "notes"
    notes,            \* PersonState.notes
    search_queries,   \* PersonState.search_queries
    info,             \* PersonState.info
    reflection_count, \* PersonState.reflection_count
    searches,         \* Research.run: one outcome slot per search future
    source_str,       \* Research.run: the aggregator's output, once computed
    result,           \* what the run returned to its caller (End's data)
    error,            \* the call whose failure propagated to the caller
    history,          \* the nodes run so far, in order (the graph's history)
    verdicts,         \* is_satisfactory of each reflection verdict received
    generated,        \* the queries returned by the last query_agent call
    start,            \* the start node and the reflection_count the run began with
    subject,          \* PersonState input fields and user_notes
    query_input,      \* the prompt passed to the last query_agent call
    suggested,        \* the queries of the last verdict, until the next search batch
    searched,         \* the queries sent to the search client by the running batch
    extracted,        \* the input and output of the last extraction_agent call
    completion,       \* observer: the order in which the searches finished
    fmt_args,         \* arguments of a direct call of deduplicate_and_format_sources
    fmt_out,          \* its return value
    peer              \* the state of a second run suspended at an await

ctx == <<notes, search_queries, info, reflection_count>>
frame == <<phase, searches, source_str>>
\* Observations of the run's calls.
calls == <<query_input, suggested, searched, extracted>>
\* What no step of a single run touches.
aux == <<completion, fmt_args, fmt_out, peer>>
vars == <<node, phase, notes, search_queries, info, reflection_count,
          searches, source_str, result, error, history, verdicts, generated,
          start, subject, query_input, suggested, searched, extracted,
          completion, fmt_args, fmt_out, peer>>

----------------------------------------------------------------------------
(* Bounds of the model *)

MaxQueries == 2
MaxResults == 1
MaxFmtTokens == 1

(* Program constants *)

MaxReflections == 2
MaxTokens == 1000
CharsPerToken == 4

----------------------------------------------------------------------------
(* Values *)

\* Optional values (T | None) are sequences of length at most one.
None == <<>>
Some(x) == <<x>>
TheValue(opt) == opt[1]

NoError == "none"

\* The outcome of an awaited external call: it returns a value, or raises.
Raises == <<>>
Returns(x) == <<x>>
Outcomes(S) == {Raises} \cup {Returns(x) : x \in S}

\* The outcome slot of one search future.
Pending == [status |-> "pending", response |-> <<>>]
Failed == [status |-> "failed", response |-> <<>>]
Done(r) == [status |-> "done", response |-> r]

Nodes == {"GenerateQueries", "Research", "Extract", "Reflect"}

\* The nodes a run is started at: GenerateQueries by research_person, Reflect
\* by a caller of the graph that only wants the verdict on a given state.
StartNodes == {"GenerateQueries", "Reflect"}

SeqsUpTo(S, n) == UNION {[1..k -> S] : k \in 0..n}

Query == {"q1", "q2"}
QueryLists == SeqsUpTo(Query, MaxQueries)

Note == {"n1", "n2"}

\* PersonInfo values the extraction agent may return.
PersonInfo ==
    { [years_experience |-> 5, current_company |-> "Acme", role |-> "Engineer",
       prior_companies |-> <<>>, notes |-> "a"],
      [years_experience |-> 9, current_company |-> "Initech", role |-> "Manager",
       prior_companies |-> <<[name |-> "Acme", role |-> "Engineer",
                              year_started |-> 2015, year_ended |-> 2020]>>,
       notes |-> "b"] }

\* TavilyResult values the search client may return; raw_content is optional.
TavilyResult ==
    { [url |-> "u1", title |-> "t1", content |-> "c1", raw_content |-> Some(<<"x">>)],
      [url |-> "u1", title |-> "t2", content |-> "c2", raw_content |-> None],
      [url |-> "u2", title |-> "t1", content |-> "c1", raw_content |-> Some(<<"y", "x">>)] }

\* TavilyResponse["results"]
TavilyResponse == SeqsUpTo(TavilyResult, MaxResults)

\* A text of n distinct characters.
Alphabet == <<"a", "b", "c", "d", "e", "f", "g", "h">>
Text(n) == SubSeq(Alphabet, 1, n)

\* The arguments of a direct call of deduplicate_and_format_sources: documents
\* whose raw_content is absent, empty, at and over max_tokens * 4 characters,
\* with urls repeated under other titles and contents.
FmtResult ==
    { [url |-> "u1", title |-> "t1", content |-> "c1", raw_content |-> Some(Text(5))],
      [url |-> "u1", title |-> "t2", content |-> "c2", raw_content |-> None],
      [url |-> "u2", title |-> "t1", content |-> "c1", raw_content |-> Some(Text(4))],
      [url |-> "u2", title |-> "t3", content |-> "c3", raw_content |-> Some(Text(0))] }

FmtArgs ==
    [search_response : SeqsUpTo(SeqsUpTo(FmtResult, MaxResults), MaxQueries),
     max_tokens : 0..MaxFmtTokens,
     include_raw_content : BOOLEAN]

\* ReflectionOutput (missing_fields and reasoning are never read by the nodes).
ReflectionOutput == [is_satisfactory : BOOLEAN, search_queries : QueryLists]

\* UserNotes
UserNotes == {[additional |-> "met at a conference", context |-> "default_context"]}

\* The input fields of PersonState: each str | None, the empty string included
\* where the code tests truthiness.
Subjects ==
    [email : {None, Some("a@b.com")},
     name : {None, Some(""), Some("Ann")},
     company : {None, Some("Acme")},
     linkedin : {None, Some(""), Some("in/ann")},
     role : {None, Some("Engineer")},
     user_notes : {None} \cup {Some(u) : u \in UserNotes}]

\* The subject of the runs whose control flow is explored.
EntrySubject ==
    [email |-> Some("a@b.com"), name |-> Some("Ann"), company |-> None,
     linkedin |-> None, role |-> None, user_notes |-> None]

----------------------------------------------------------------------------
(* PersonState.person_str: the parts joined by " ", as the sequence of parts *)

\* f"{value}" of a str | None
Rendered(opt) == IF opt = None THEN "None" ELSE TheValue(opt)

\* if self.name: (None and "" are falsy)
Truthy(opt) == opt # None /\ TheValue(opt) # ""

Part(label, opt) == IF Truthy(opt) THEN << <<label, TheValue(opt)>> >> ELSE <<>>

person_str(s) ==
    << <<"Email", Rendered(s.email)>> >>
        \o Part("Name", s.name)
        \o Part("LinkedIn URL", s.linkedin)
        \o Part("Role", s.role)
        \o Part("Company", s.company)

----------------------------------------------------------------------------
(* deduplicate_and_format_sources *)

RECURSIVE Flatten(_)
Flatten(responses) ==
    IF responses = <<>> THEN <<>>
    ELSE Head(responses) \o Flatten(Tail(responses))

\* Last document of a url wins, at the position of the first.
RECURSIVE UniqueSources_LastWins(_, _)
UniqueSources_LastWins(sources_list, unique) ==
    IF sources_list = <<>> THEN unique
    ELSE LET source == Head(sources_list)
         IN  IF \E i \in 1..Len(unique) : unique[i].url = source.url
             THEN UniqueSources_LastWins(Tail(sources_list),
                      [i \in 1..Len(unique) |->
                          IF unique[i].url = source.url THEN source
                          ELSE unique[i]])
             ELSE UniqueSources_LastWins(Tail(sources_list),
                                         Append(unique, source))

\* The insertion-ordered dict keyed by url, as the sequence of its values.
RECURSIVE UniqueSources(_, _)
UniqueSources(sources_list, unique) ==
    IF sources_list = <<>> THEN unique
    ELSE LET source == Head(sources_list)
         IN  IF \E i \in 1..Len(unique) : unique[i].url = source.url
             THEN UniqueSources(Tail(sources_list), unique)
             ELSE UniqueSources(Tail(sources_list), Append(unique, source))

TruncatedMarker == <<"...", " [truncated]">>

\* Truncates from max_tokens * 4 characters on, not over.
RawContent_OffByOne(source, max_tokens) ==
    IF source.raw_content = None THEN <<>>
    ELSE LET raw_content == TheValue(source.raw_content)
         IN  IF Len(raw_content) >= max_tokens * CharsPerToken
             THEN SubSeq(raw_content, 1, max_tokens * CharsPerToken)
                      \o TruncatedMarker
             ELSE raw_content

RawContent(source, max_tokens) ==
    IF source.raw_content = None THEN <<>>
    ELSE LET raw_content == TheValue(source.raw_content)
         IN  IF Len(raw_content) > max_tokens * CharsPerToken
             THEN SubSeq(raw_content, 1, max_tokens * CharsPerToken)
                      \o TruncatedMarker
             ELSE raw_content

FormatSource(source, max_tokens, include_raw_content) ==
    IF include_raw_content
    THEN [title |-> source.title, url |-> source.url, content |-> source.content,
          raw |-> RawContent(source, max_tokens)]
    ELSE [title |-> source.title, url |-> source.url, content |-> source.content]

deduplicate_and_format_sources(search_response, max_tokens, include_raw_content) ==
    LET unique_sources == UniqueSources(Flatten(search_response), <<>>)
    IN  [i \in 1..Len(unique_sources) |->
            FormatSource(unique_sources[i], max_tokens, include_raw_content)]

----------------------------------------------------------------------------
(* Reflect._create_default_info *)

DefaultInfo_Blank ==
    [years_experience |-> 0, current_company |-> "", role |-> "",
     prior_companies |-> <<>>, notes |-> ""]

DefaultInfo ==
    [years_experience |-> 0, current_company |-> "Unknown", role |-> "Unknown",
     prior_companies |-> <<>>, notes |-> "No information available"]

----------------------------------------------------------------------------
(* The run *)

\* graph.run(start_node, state=PersonState(...)): research_person starts at
\* GenerateQueries with the dataclass defaults; the graph also accepts another
\* start node and a state whose reflection_count is given.
Init ==
    /\ node \in StartNodes
    /\ phase = "entry"
    /\ notes = <<>>
    /\ search_queries = <<>>
    /\ info = None
    /\ reflection_count \in 0..MaxReflections
    /\ searches = <<>>
    /\ source_str = None
    /\ result = None
    /\ error = NoError
    /\ history = <<>>
    /\ verdicts = <<>>
    /\ generated = None
    /\ start = [node |-> node, reflection_count |-> reflection_count]
    /\ subject = EntrySubject
    /\ query_input = None
    /\ suggested = None
    /\ searched = None
    /\ extracted = None
    /\ completion = <<>>
    /\ fmt_args = None
    /\ fmt_out = None
    /\ peer = None

\* An exception leaves the node's run and graph.run: the run is over.
Raise_Retries(who) ==
    /\ node' = node
    /\ error' = who

Raise(who) ==
    /\ node' = "Raised"
    /\ error' = who

\* query_agent.run(ctx.state.person_str): the agent's system prompt is the
\* constant QUERY_WRITER_PROMPT, whose {user_notes} placeholder is never
\* formatted; the user prompt is person_str.
QueryInput(s) ==
    [system_prompt |-> "QUERY_WRITER_PROMPT", user_prompt |-> person_str(s)]

\* ctx.state.search_queries = result.data.queries
StoreGenerated_KeepsStored(old, new) == IF old # <<>> THEN old ELSE new
StoreGenerated(old, new) == new

\* GenerateQueries.run; r is the outcome of the query_agent call.
GenerateQueriesRun(r) ==
    /\ node = "GenerateQueries"
    /\ history' = Append(history, "GenerateQueries")
    /\ query_input' = Some(QueryInput(subject))
    /\ IF r = Raises
       THEN /\ Raise("query_agent")
            /\ UNCHANGED <<ctx, generated>>
       ELSE /\ search_queries' = StoreGenerated(search_queries, TheValue(r))
            /\ generated' = Some(TheValue(r))
            /\ node' = "Research"
            /\ UNCHANGED <<notes, info, reflection_count, error>>
    /\ UNCHANGED <<frame, result, verdicts, start, subject, suggested,
                   searched, extracted, aux>>

\* Research.run up to the await of asyncio.gather: one search per query, in
\* query order, all created before any is awaited.
ResearchDispatch ==
    /\ node = "Research"
    /\ phase = "entry"
    /\ history' = Append(history, "Research")
    /\ searches' = [i \in 1..Len(search_queries) |-> Pending]
    /\ searched' = Some(search_queries)
    /\ suggested' = None
    /\ phase' = "gather"
    /\ UNCHANGED <<node, ctx, source_str, result, error, verdicts, generated,
                   start, subject, query_input, extracted, aux>>

\* Search i returns r or raises.  The searches run concurrently and finish in
\* any order while Research.run awaits asyncio.gather.
SearchReturn(i, r) ==
    /\ node = "Research"
    /\ phase = "gather"
    /\ i \in DOMAIN searches
    /\ searches[i] = Pending
    /\ searches' = [searches EXCEPT ![i] = IF r = Raises THEN Failed
                                          ELSE Done(TheValue(r))]
    /\ UNCHANGED <<node, phase, ctx, source_str, result, error, history,
                   verdicts, generated, start, subject, calls, fmt_args,
                   fmt_out, peer>>

SearchComplete(i, r) == SearchReturn(i, r) /\ UNCHANGED completion

\* The same step with the observer writing down which search finished, and
\* with what.
SearchCompleteObserved(i, r) ==
    /\ SearchReturn(i, r)
    /\ completion' = Append(completion,
                            [i |-> i,
                             response |-> IF r = Raises THEN <<>>
                                          ELSE TheValue(r)])

\* asyncio.gather propagates the first exception to Research.run, which does
\* not catch it, without waiting for the searches still pending.
GatherRaise ==
    /\ node = "Research"
    /\ phase = "gather"
    /\ \E i \in DOMAIN searches : searches[i] = Failed
    /\ Raise("tavily_client")
    /\ UNCHANGED <<frame, ctx, result, history, verdicts, generated, start,
                   subject, calls, aux>>

\* The results in the order in which the searches finished.
SearchResults_CompletionOrder ==
    [k \in 1..Len(completion) |-> completion[k].response]

\* The results of gather, in the order of the futures.
SearchResults == [i \in DOMAIN searches |-> searches[i].response]

\* asyncio.gather returns once every search has returned; the results are
\* then deduplicated and formatted.
ResearchAggregate_BestEffort ==
    /\ node = "Research"
    /\ phase = "gather"
    /\ \A i \in DOMAIN searches : searches[i].status # "pending"
    /\ source_str' = Some(deduplicate_and_format_sources(SearchResults,
                                                         MaxTokens, TRUE))
    /\ searches' = <<>>
    /\ phase' = "notes"
    /\ UNCHANGED <<node, ctx, result, error, history, verdicts, generated,
                   start, subject, calls, aux>>

ResearchAggregate ==
    /\ node = "Research"
    /\ phase = "gather"
    /\ \A i \in DOMAIN searches : searches[i].status = "done"
    /\ source_str' = Some(deduplicate_and_format_sources(SearchResults,
                                                         MaxTokens, TRUE))
    /\ searches' = <<>>
    /\ phase' = "notes"
    /\ UNCHANGED <<node, ctx, result, error, history, verdicts, generated,
                   start, subject, calls, aux>>

\* ctx.state.notes.append(str(result.data))
AppendNote_Replaces(ns, n) == <<n>>
AppendNote(ns, n) == Append(ns, n)

\* notes: list[str] = field(default_factory=list): every PersonState has a
\* list of its own, so the state of another run does not see the append.
NotesOfOtherRun_SharedList(other, ns) ==
    IF other = None THEN other
    ELSE Some([TheValue(other) EXCEPT !.notes = ns])

NotesOfOtherRun(other, ns) == other

\* The rest of Research.run; r is the outcome of the research_notes_agent call.
ResearchNotes(r) ==
    /\ node = "Research"
    /\ phase = "notes"
    /\ IF r = Raises
       THEN /\ Raise("research_notes_agent")
            /\ UNCHANGED <<ctx, frame, searched>>
       ELSE /\ notes' = AppendNote(notes, TheValue(r))
            /\ node' = "Extract"
            /\ phase' = "entry"
            /\ source_str' = None
            /\ searched' = None
            /\ UNCHANGED <<search_queries, info, reflection_count, searches,
                           error>>
    /\ peer' = NotesOfOtherRun(peer, notes')
    /\ UNCHANGED <<result, history, verdicts, generated, start, subject,
                   query_input, suggested, extracted, completion, fmt_args,
                   fmt_out>>

\* all_notes = "\n\n".join(ctx.state.notes): the notes with the separator
\* between each two.
RECURSIVE JoinNotes(_, _)
JoinNotes(ns, sep) ==
    IF Len(ns) <= 1 THEN ns
    ELSE <<Head(ns), sep>> \o JoinNotes(Tail(ns), sep)

\* ctx.state.info = result.data
StoreInfo_KeepsFirst(old, new) == IF old = None THEN Some(new) ELSE old
StoreInfo_Discards(old, new) == old
StoreInfo(old, new) == Some(new)

\* Extract.run; r is the outcome of the extraction_agent call.
ExtractRun_BackToResearch(r) ==
    /\ node = "Extract"
    /\ history' = Append(history, "Extract")
    /\ IF r = Raises
       THEN /\ Raise("extraction_agent")
            /\ UNCHANGED <<ctx, extracted>>
       ELSE /\ info' = StoreInfo(info, TheValue(r))
            /\ extracted' = Some([all_notes |-> JoinNotes(notes, "\n\n"),
                                  data |-> TheValue(r)])
            /\ node' = "Research"
            /\ UNCHANGED <<notes, search_queries, reflection_count, error>>
    /\ UNCHANGED <<frame, result, verdicts, generated, start, subject,
                   query_input, suggested, searched, aux>>

ExtractRun(r) ==
    /\ node = "Extract"
    /\ history' = Append(history, "Extract")
    /\ IF r = Raises
       THEN /\ Raise("extraction_agent")
            /\ UNCHANGED <<ctx, extracted>>
       ELSE /\ info' = StoreInfo(info, TheValue(r))
            /\ extracted' = Some([all_notes |-> JoinNotes(notes, "\n\n"),
                                  data |-> TheValue(r)])
            /\ node' = "Reflect"
            /\ UNCHANGED <<notes, search_queries, reflection_count, error>>
    /\ UNCHANGED <<frame, result, verdicts, generated, start, subject,
                   query_input, suggested, searched, aux>>

\* End(ctx.state.info if ctx.state.info else self._create_default_info());
\* a PersonInfo is always truthy, so the test is "info is not None".
EndData == IF info # None THEN TheValue(info) ELSE DefaultInfo

\* if result.data.is_satisfactory:
Satisfied_Negated(data) == ~data.is_satisfactory
Satisfied(data) == data.is_satisfactory

\* if ctx.state.reflection_count < 2:
MayReflectAgain_OffByOne == reflection_count <= MaxReflections
MayReflectAgain_Unbounded == TRUE
MayReflectAgain == reflection_count < MaxReflections

\* ctx.state.search_queries = result.data.search_queries
StoreQueries_Extends(old, new) == old \o new
StoreQueries(old, new) == new

\* return End(...): the run ends with the record; the state is not assigned.
ReflectEnd_StoresQueries(data) ==
    /\ result' = Some(EndData)
    /\ node' = "End"
    /\ history' = history \o <<"Reflect", "End">>
    /\ search_queries' = data.search_queries
    /\ UNCHANGED <<notes, info, reflection_count, error>>

ReflectEnd(data) ==
    /\ result' = Some(EndData)
    /\ node' = "End"
    /\ history' = history \o <<"Reflect", "End">>
    /\ UNCHANGED <<ctx, error>>

\* Reflect.run; r is the outcome of the reflection_agent call.
ReflectRun(r) ==
    /\ node = "Reflect"
    /\ IF r = Raises
       THEN /\ history' = Append(history, "Reflect")
            /\ Raise("reflection_agent")
            /\ UNCHANGED <<ctx, result, verdicts, suggested>>
       ELSE LET data == TheValue(r) IN
            /\ verdicts' = Append(verdicts, data.is_satisfactory)
            /\ suggested' = Some(data.search_queries)
            /\ IF Satisfied(data)
               THEN ReflectEnd(data)
               ELSE IF MayReflectAgain
               THEN /\ reflection_count' = reflection_count + 1
                    /\ search_queries' = StoreQueries(search_queries,
                                                      data.search_queries)
                    /\ node' = "GenerateQueries"
                    /\ history' = Append(history, "Reflect")
                    /\ UNCHANGED <<notes, info, result, error>>
               ELSE ReflectEnd(data)
    /\ UNCHANGED <<frame, generated, start, subject, query_input, searched,
                   extracted, aux>>

Next ==
    \/ \E r \in Outcomes(QueryLists) : GenerateQueriesRun(r)
    \/ ResearchDispatch
    \/ \E i \in DOMAIN searches, r \in Outcomes(TavilyResponse) : SearchComplete(i, r)
    \/ GatherRaise
    \/ ResearchAggregate
    \/ \E r \in Outcomes(Note) : ResearchNotes(r)
    \/ \E r \in Outcomes(PersonInfo) : ExtractRun(r)
    \/ \E r \in Outcomes(ReflectionOutput) : ReflectRun(r)

Spec == Init /\ [][Next]_vars

\* PersonState(...) with the dataclass defaults, about to run GenerateQueries.
FreshRun ==
    /\ node = "GenerateQueries"
    /\ phase = "entry"
    /\ notes = <<>>
    /\ search_queries = <<>>
    /\ info = None
    /\ reflection_count = 0
    /\ searches = <<>>
    /\ source_str = None
    /\ result = None
    /\ error = NoError
    /\ history = <<>>
    /\ verdicts = <<>>
    /\ generated = None
    /\ start = [node |-> node, reflection_count |-> reflection_count]
    /\ query_input = None
    /\ suggested = None
    /\ searched = None
    /\ extracted = None
    /\ completion = <<>>

\* research_person(email, name, company, linkedin, role, user_notes) up to the
\* return of the query agent, for every subject.
QueryInit ==
    /\ FreshRun
    /\ subject \in Subjects
    /\ peer = None
    /\ fmt_args = None
    /\ fmt_out = None

QueryNext == \E r \in Outcomes(QueryLists) : GenerateQueriesRun(r)

QuerySpec == QueryInit /\ [][QueryNext]_vars

\* One Research step of a fresh run, the completion of its searches observed.
ResearchInit ==
    /\ FreshRun
    /\ subject = EntrySubject
    /\ peer = None
    /\ fmt_args = None
    /\ fmt_out = None

ResearchNext ==
    \/ \E r \in Outcomes(QueryLists) : GenerateQueriesRun(r)
    \/ ResearchDispatch
    \/ \E i \in DOMAIN searches, r \in Outcomes(TavilyResponse) :
          SearchCompleteObserved(i, r)
    \/ GatherRaise
    \/ ResearchAggregate
    \/ \E r \in Outcomes(Note) : ResearchNotes(r)

ResearchSpec == ResearchInit /\ [][ResearchNext]_vars

\* The state of the running call of research_person.
RunState ==
    [node |-> node, phase |-> phase, notes |-> notes,
     search_queries |-> search_queries, info |-> info,
     reflection_count |-> reflection_count, searches |-> searches,
     source_str |-> source_str, result |-> result, error |-> error,
     history |-> history, verdicts |-> verdicts, generated |-> generated,
     start |-> start, subject |-> subject, query_input |-> query_input,
     suggested |-> suggested, searched |-> searched, extracted |-> extracted]

\* The subject of the second call.
OtherSubject ==
    [email |-> Some("a@b.com"), name |-> None, company |-> Some("Acme"),
     linkedin |-> None, role |-> None, user_notes |-> None]

\* Two calls of research_person for distinct subjects, each with the
\* PersonState it constructs; one runs while the other waits at an await.
PairInit ==
    /\ FreshRun
    /\ subject = EntrySubject
    /\ fmt_args = None
    /\ fmt_out = None
    /\ peer = Some([RunState EXCEPT !.subject = OtherSubject])

\* The event loop suspends the running call at its await and resumes the
\* other one where it was suspended.
Switch ==
    /\ peer # None
    /\ peer' = Some(RunState)
    /\ LET other == TheValue(peer)
       IN  /\ node' = other.node
           /\ phase' = other.phase
           /\ notes' = other.notes
           /\ search_queries' = other.search_queries
           /\ info' = other.info
           /\ reflection_count' = other.reflection_count
           /\ searches' = other.searches
           /\ source_str' = other.source_str
           /\ result' = other.result
           /\ error' = other.error
           /\ history' = other.history
           /\ verdicts' = other.verdicts
           /\ generated' = other.generated
           /\ start' = other.start
           /\ subject' = other.subject
           /\ query_input' = other.query_input
           /\ suggested' = other.suggested
           /\ searched' = other.searched
           /\ extracted' = other.extracted
    /\ UNCHANGED <<completion, fmt_args, fmt_out>>

\* The responses the two calls are given.
PairQueries == {<<"q1">>}
PairResponses == {r \in TavilyResponse : Len(r) = 1 /\ r[1].url = "u2"}
PairInfo == {i \in PersonInfo : i.years_experience = 5}
PairVerdicts == [is_satisfactory : BOOLEAN, search_queries : {<<"q2">>}]

PairNext ==
    \/ \E r \in Outcomes(PairQueries) : GenerateQueriesRun(r)
    \/ ResearchDispatch
    \/ \E i \in DOMAIN searches, r \in Outcomes(PairResponses) :
          SearchComplete(i, r)
    \/ GatherRaise
    \/ ResearchAggregate
    \/ \E r \in Outcomes(Note) : ResearchNotes(r)
    \/ \E r \in Outcomes(PairInfo) : ExtractRun(r)
    \/ \E r \in Outcomes(PairVerdicts) : ReflectRun(r)
    \/ Switch

PairSpec == PairInit /\ [][PairNext]_vars

\* A direct call of deduplicate_and_format_sources on any arguments.
FmtInit ==
    /\ FreshRun
    /\ subject = EntrySubject
    /\ peer = None
    /\ fmt_args \in {Some(a) : a \in FmtArgs}
    /\ fmt_out = None

FormatCall ==
    /\ fmt_args # None
    /\ fmt_out = None
    /\ LET a == TheValue(fmt_args)
       IN  fmt_out' = Some(deduplicate_and_format_sources(
                               a.search_response, a.max_tokens,
                               a.include_raw_content))
    /\ UNCHANGED <<node, frame, ctx, result, error, history, verdicts,
                   generated, start, subject, calls, completion, fmt_args,
                   peer>>

FmtNext == FormatCall

FmtSpec == FmtInit /\ [][FmtNext]_vars

\* Every awaited call eventually returns or raises.
FairSpec == Spec /\ WF_vars(Next)

----------------------------------------------------------------------------
(* Derived quantities used by the properties *)

Count(seq, x) == Cardinality({i \in 1..Len(seq) : seq[i] = x})

\* research_person: the run starts at GenerateQueries with the defaults.
FromGenerateQueries ==
    start.node = "GenerateQueries" /\ start.reflection_count = 0

AllUnsatisfactory == \A i \in 1..Len(verdicts) : verdicts[i] = FALSE

Terminated == node \in {"End", "Raised"}

----------------------------------------------------------------------------
(* C1: cycle bound.  In a run started at GenerateQueries with              *)
(* reflection_count = 0 whose verdicts are all unsatisfactory,             *)
(* GenerateQueries never runs more than 3 times, the run has not ended     *)
(* before the third verdict, and on the third verdict it ends, having run  *)
(* GenerateQueries and Reflect exactly 3 times each.                       *)
C1_CycleBound ==
    (FromGenerateQueries /\ AllUnsatisfactory) =>
        /\ Count(history, "GenerateQueries") <= 3
        /\ Len(verdicts) <= 3
        /\ (Len(verdicts) < 3 => node # "End")
        /\ (Len(verdicts) = 3 =>
               /\ node = "End"
               /\ Count(history, "GenerateQueries") = 3
               /\ Count(history, "Reflect") = 3)

C1_Witness ==
    /\ FromGenerateQueries
    /\ node = "End"
    /\ verdicts = <<FALSE, FALSE, FALSE>>

(* C2: started with reflection_count = 0, reflection_count stays within    *)
(* 0..2, no step decreases it, and a verdict received while it equals 2    *)
(* ends the run whatever the verdict says.                                 *)
C2_ReflectionCountBounded ==
    /\ [](start.reflection_count = 0 => reflection_count \in 0..2)
    /\ [][start.reflection_count = 0 =>
            /\ reflection_count' >= reflection_count
            /\ (reflection_count = 2 /\ verdicts' # verdicts => node' = "End")]_vars

C2_Witness ==
    /\ start.reflection_count = 0
    /\ reflection_count = 2
    /\ node = "End"
    /\ verdicts = <<FALSE, FALSE, TRUE>>

(* C3: early termination.  Started at GenerateQueries with the defaults,   *)
(* once the first verdict is satisfactory the run is over after exactly    *)
(* one GenerateQueries, Research, Extract and Reflect, reflection_count is *)
(* still 0 and search_queries still holds the generated queries.           *)
C3_EarlyTermination ==
    (FromGenerateQueries /\ verdicts # <<>> /\ verdicts[1] = TRUE) =>
        /\ node = "End"
        /\ history = <<"GenerateQueries", "Research", "Extract", "Reflect", "End">>
        /\ verdicts = <<TRUE>>
        /\ reflection_count = 0
        /\ generated # None
        /\ search_queries = TheValue(generated)

C3_Witness ==
    /\ FromGenerateQueries
    /\ verdicts = <<TRUE>>
    /\ node = "End"
    /\ search_queries # <<>>

(* C4: termination.  When every awaited call eventually returns or       *)
(* raises, the run eventually ends; a run that began with the defaults and *)
(* ends without a failure has received at most 3 verdicts and returns      *)
(* exactly one PersonInfo, which no later step changes.                    *)
C4_Termination ==
    /\ <>Terminated
    /\ [](node = "End" =>
            /\ error = NoError
            /\ Len(result) = 1
            /\ TheValue(result) \in PersonInfo \cup {DefaultInfo}
            /\ (start.reflection_count = 0 =>
                   Len(verdicts) <= 3 /\ Count(history, "Reflect") <= 3))
    /\ [](node \in Nodes => result = None)
    /\ [][result # None => result' = result]_vars

C4_Witness ==
    /\ node = "End"
    /\ start.reflection_count = 0
    /\ Count(history, "Reflect") = 3
    /\ result # None
    /\ verdicts[2] = FALSE

(* C5: transition order.  The nodes run one at a time, each run node is    *)
(* followed only by its successor (GenerateQueries -> Research -> Extract  *)
(* -> Reflect -> End or GenerateQueries), and between two runs of Research *)
(* or of Extract there is a run of Reflect.                                *)
Successors ==
    { <<"GenerateQueries", "Research">>, <<"Research", "Extract">>,
      <<"Extract", "Reflect">>, <<"Reflect", "End">>,
      <<"Reflect", "GenerateQueries">> }

C5_TransitionOrder ==
    /\ \A i \in 1..(Len(history) - 1) : <<history[i], history[i + 1]>> \in Successors
    /\ (history # <<>> /\ node # "Raised") =>
            \/ <<history[Len(history)], node>> \in Successors
            \/ history[Len(history)] = node /\ node \in {"Research", "End"}
    /\ \A i, j \in 1..Len(history) :
            (i < j /\ history[i] = history[j] /\ history[i] \in {"Research", "Extract"})
                => \E k \in (i + 1)..(j - 1) : history[k] = "Reflect"
    /\ (phase # "entry" \/ searches # <<>> \/ source_str # None)
            => node \in {"Research", "Raised"}

C5_Witness ==
    /\ node = "End"
    /\ Count(history, "Research") = 3
    /\ Count(history, "Extract") = 3

(* C6: the record of the terminal state is never absent: it is the         *)
(* context's extracted record, and without one it is exactly the default   *)
(* record, on the satisfactory branch and on the exhausted branch alike.   *)
C6_RecordNeverAbsent ==
    node = "End" =>
        /\ result # None
        /\ (info = None =>
               TheValue(result) =
                   [years_experience |-> 0, current_company |-> "Unknown",
                    role |-> "Unknown", prior_companies |-> <<>>,
                    notes |-> "No information available"])
        /\ (info # None => TheValue(result) = TheValue(info))

\* The exhausted branch (unsatisfactory, reflection_count = 2) with no record.
C6_Witness ==
    /\ node = "End"
    /\ info = None
    /\ verdicts = <<FALSE>>
    /\ reflection_count = 2

(* C7: error propagation.  A failed call ends the run at the node that     *)
(* made it: the failure reaches the caller, no record is returned, and no  *)
(* further step is taken (no later node runs, nothing is retried).         *)
FailingNode(who) ==
    CASE who = "query_agent" -> "GenerateQueries"
      [] who = "tavily_client" -> "Research"
      [] who = "research_notes_agent" -> "Research"
      [] who = "extraction_agent" -> "Extract"
      [] who = "reflection_agent" -> "Reflect"

C7_ErrorPropagation ==
    /\ [](error # NoError =>
            /\ node = "Raised"
            /\ result = None
            /\ history[Len(history)] = FailingNode(error))
    /\ [](node = "Raised" => error # NoError)
    /\ [][error = NoError]_vars
    /\ [][error' # NoError => ctx' = ctx]_vars

\* A failure in the second cycle: a record was extracted, none is returned.
C7_Witness ==
    /\ node = "Raised"
    /\ error = "research_notes_agent"
    /\ info # None
    /\ result = None

(* C8: fail-fast join.  Research creates one search per query before it    *)
(* awaits any; the aggregator runs only once every search has returned;    *)
(* once a search has failed, Research does nothing but fail: the           *)
(* aggregator and the note-taking agent are not called and notes is left   *)
(* as it was.                                                              *)
SomeSearchFailed == \E i \in DOMAIN searches : searches[i] = Failed

C8_FailFastJoin ==
    /\ []((node = "Research" /\ phase = "gather") =>
             Len(searches) = Len(search_queries))
    /\ [][(phase = "gather" /\ phase' = "notes") =>
             \A i \in DOMAIN searches : searches[i].status = "done"]_vars
    /\ [][source_str' # source_str => phase # phase']_vars
    /\ [][SomeSearchFailed =>
             /\ notes' = notes
             /\ source_str' = None
             /\ phase' = "gather"
             /\ node' \in {"Research", "Raised"}]_vars
    /\ [](error = "tavily_client" => source_str = None /\ phase = "gather")

\* One search returned documents, one failed, one is still pending.
C8_Witness ==
    /\ node = "Raised"
    /\ error = "tavily_client"
    /\ \E i \in DOMAIN searches :
           searches[i].status = "done" /\ searches[i].response # <<>>
    /\ notes # <<>>

(* C9: search_queries is non-empty whenever Research is entered.           *)
C9_QueriesNonEmpty ==
    (FromGenerateQueries /\ node = "Research" /\ phase = "entry")
        => search_queries # <<>>

(* C10: notes is append-only.  Every step leaves the old notes as a prefix *)
(* of the new; only the successful end of Research changes notes, by       *)
(* appending exactly one note.                                             *)
IsPrefix(s, t) == Len(s) <= Len(t) /\ SubSeq(t, 1, Len(s)) = s

C10_NotesAppendOnly ==
    [][/\ IsPrefix(notes, notes')
       /\ notes' # notes =>
             /\ Len(notes') = Len(notes) + 1
             /\ node = "Research" /\ phase = "notes" /\ node' = "Extract"
       /\ node \in {"GenerateQueries", "Extract", "Reflect"} => notes' = notes]_vars

C10_Witness ==
    /\ Len(notes) = 3
    /\ notes[1] # notes[2]
    /\ node = "End"

----------------------------------------------------------------------------
Last(seq) == seq[Len(seq)]

\* The step is a Reflect step on which reflection_agent returned a verdict.
ReflectVerdict == node = "Reflect" /\ Len(verdicts') = Len(verdicts) + 1

(* C16: retry step of Reflect.  When the verdict is unsatisfactory and     *)
(* reflection_count < 2, Reflect increases reflection_count by exactly 1,  *)
(* replaces search_queries with the verdict's queries (the old queries are *)
(* dropped), leaves notes and info unchanged and moves to GenerateQueries. *)
C16_RetryStep ==
    [][(ReflectVerdict /\ ~Last(verdicts') /\ reflection_count < 2) =>
          /\ reflection_count' = reflection_count + 1
          /\ search_queries' = TheValue(suggested')
          /\ notes' = notes
          /\ info' = info
          /\ node' = "GenerateQueries"]_vars

\* Reflect has just retried: the verdict's queries replaced different,
\* non-empty ones.
C16_Witness ==
    /\ node = "GenerateQueries"
    /\ history # <<>>
    /\ Last(history) = "Reflect"
    /\ reflection_count >= 1
    /\ suggested = Some(search_queries)
    /\ generated # None
    /\ TheValue(generated) # <<>>
    /\ TheValue(generated) # search_queries
    /\ notes # <<>>
    /\ info # None

(* C17: terminating steps of Reflect change nothing in the context.  When  *)
(* Reflect ends the run (satisfactory verdict, or unsatisfactory verdict   *)
(* with reflection_count = 2), reflection_count, search_queries, notes and *)
(* info are left unchanged: the verdict's queries are discarded.           *)
C17_EndLeavesContext ==
    [][(ReflectVerdict /\ (Last(verdicts') \/ reflection_count = 2)) =>
          /\ node' = "End"
          /\ ctx' = ctx]_vars

\* The run ended on an unsatisfactory verdict at the cap, and the verdict
\* suggested queries other than the stored ones.
C17_Witness ==
    /\ node = "End"
    /\ ~Last(verdicts)
    /\ reflection_count = 2
    /\ suggested # None
    /\ TheValue(suggested) # <<>>
    /\ TheValue(suggested) # search_queries

(* C18: the record returned by a run is the output of the most recent      *)
(* Extract step.  Each Extract overwrites info with the record extracted   *)
(* from all accumulated notes; when the run ends after several cycles the  *)
(* returned record is that of the last Extract, never an earlier one.      *)
C18_LastExtractWins ==
    extracted # None =>
        LET last == TheValue(extracted) IN
        /\ info = Some(last.data)
        /\ node = "End" => result = Some(last.data)
        /\ node \in {"Reflect", "End"} =>
              /\ Len(last.all_notes) = IF notes = <<>> THEN 0
                                       ELSE 2 * Len(notes) - 1
              /\ \A i \in 1..Len(notes) : last.all_notes[2 * i - 1] = notes[i]

\* The run ended after at least two Extract steps over at least two notes.
C18_Witness ==
    /\ node = "End"
    /\ Count(history, "Extract") >= 2
    /\ Len(notes) >= 2
    /\ extracted # None
    /\ result = Some(TheValue(extracted).data)

(* C19: every Research step searches exactly the queries stored by the     *)
(* GenerateQueries step immediately before it.  The queries Reflect stores *)
(* on an unsatisfactory verdict are overwritten by the following           *)
(* GenerateQueries before any search is issued.                            *)
C19_SearchesGenerated ==
    /\ [](node = "Research" =>
            /\ generated = Some(search_queries)
            /\ searched # None => searched = generated)
    /\ [][(searched = None /\ searched' # None) =>
            /\ Last(history) = "GenerateQueries"
            /\ searched' = generated]_vars

\* Research is entered after a retry whose verdict suggested other queries
\* than those the query agent then returned.
C19_Witness ==
    /\ node = "Research"
    /\ phase = "entry"
    /\ reflection_count >= 1
    /\ suggested # None
    /\ TheValue(suggested) # <<>>
    /\ TheValue(suggested) # search_queries
    /\ search_queries # <<>>

C14_InputCarriesUserNotes ==
    (query_input # None /\ subject.user_notes # None) =>
        query_input # Some(QueryInput([subject EXCEPT !.user_notes = None]))

----------------------------------------------------------------------------
\* The documents passed to the call, in the concatenation of the responses.
FmtSources == Flatten(TheValue(fmt_args).search_response)

\* The position in the concatenation of the first document with this url.
FirstWithUrl(url) ==
    CHOOSE i \in 1..Len(FmtSources) :
        /\ FmtSources[i].url = url
        /\ \A k \in 1..(i - 1) : FmtSources[k].url # url

(* C11: dedup correctness.  For any list of search responses the output    *)
(* has exactly one entry per distinct url appearing in the responses, and  *)
(* the entry's title, content and raw content are those of the first       *)
(* document with that url in the concatenation of the responses.           *)
C11_DedupFirstWins ==
    fmt_out # None =>
        LET a == TheValue(fmt_args)
            out == TheValue(fmt_out)
        IN  /\ \A i \in 1..Len(FmtSources) :
                   \E j \in 1..Len(out) : out[j].url = FmtSources[i].url
            /\ \A j, k \in 1..Len(out) : out[j].url = out[k].url => j = k
            /\ \A j \in 1..Len(out) :
                   /\ \E i \in 1..Len(FmtSources) : FmtSources[i].url = out[j].url
                   /\ LET first == FmtSources[FirstWithUrl(out[j].url)]
                      IN  /\ out[j].title = first.title
                          /\ out[j].content = first.content
                          /\ a.include_raw_content =>
                                IF first.raw_content = None THEN out[j].raw = <<>>
                                ELSE LET raw == TheValue(first.raw_content)
                                     IN  \/ out[j].raw = raw
                                         \/ \E n \in 0..Len(raw) :
                                               out[j].raw = SubSeq(raw, 1, n)
                                                 \o <<"...", " [truncated]">>

\* The call was given two documents of one url that differ in title, content
\* and raw content, and emitted one entry.
C11_Witness ==
    /\ fmt_out # None
    /\ Len(TheValue(fmt_out)) = 1
    /\ TheValue(fmt_args).include_raw_content
    /\ \E i, k \in 1..Len(FmtSources) :
          /\ i < k
          /\ FmtSources[i].url = FmtSources[k].url
          /\ FmtSources[i].title # FmtSources[k].title
          /\ FmtSources[i].content # FmtSources[k].content
          /\ FmtSources[i].raw_content # FmtSources[k].raw_content

----------------------------------------------------------------------------
\* The response of search i, whenever it finished.
ResponseOf(i) ==
    completion[CHOOSE k \in 1..Len(completion) : completion[k].i = i].response

\* The per-query result lists concatenated in the order of search_queries.
InQueryOrder == Flatten([i \in 1..Len(completion) |-> ResponseOf(i)])

FirstInQueryOrder(url) ==
    CHOOSE p \in 1..Len(InQueryOrder) :
        /\ InQueryOrder[p].url = url
        /\ \A q \in 1..(p - 1) : InQueryOrder[q].url # url

(* C12: source order under concurrency.  The formatted output of a         *)
(* Research step lists the unique sources in first-seen order over the     *)
(* per-query result lists concatenated in the order of search_queries, and *)
(* the winning document of a duplicated url is the first in that order,    *)
(* whatever the order in which the concurrent searches completed.          *)
C12_OrderIndependentOfCompletion ==
    (phase = "notes" /\ source_str # None) =>
        LET out == TheValue(source_str)
        IN  /\ Len(completion) = Len(search_queries)
            /\ \A p \in 1..Len(InQueryOrder) :
                   \E j \in 1..Len(out) : out[j].url = InQueryOrder[p].url
            /\ \A j \in 1..Len(out) :
                   /\ \E p \in 1..Len(InQueryOrder) :
                         InQueryOrder[p].url = out[j].url
                   /\ LET first == InQueryOrder[FirstInQueryOrder(out[j].url)]
                      IN  /\ out[j].title = first.title
                          /\ out[j].content = first.content
                          /\ out[j].raw = IF first.raw_content = None THEN <<>>
                                          ELSE TheValue(first.raw_content)
            /\ \A j, k \in 1..Len(out) :
                   j < k => FirstInQueryOrder(out[j].url)
                              < FirstInQueryOrder(out[k].url)

\* The second search finished before the first, both returned a document of
\* the same url under different titles, and the output shows the first
\* query's document.
C12_Witness ==
    /\ phase = "notes"
    /\ source_str # None
    /\ Len(completion) = 2
    /\ completion[1].i = 2
    /\ completion[2].i = 1
    /\ Len(completion[1].response) = 1
    /\ Len(completion[2].response) = 1
    /\ completion[1].response[1].url = completion[2].response[1].url
    /\ completion[1].response[1].title # completion[2].response[1].title
    /\ Len(TheValue(source_str)) = 1
    /\ TheValue(source_str)[1].title = completion[2].response[1].title

----------------------------------------------------------------------------
\* What holds of the state of a call that runs alone: it has one note per
\* completed Research step, one verdict per completed Reflect step, and has
\* retried once per unsatisfactory verdict that did not end it.
RunAlone(run) ==
    /\ Len(run.notes) = Count(run.history, "Extract")
                          + (IF run.node = "Extract" THEN 1 ELSE 0)
    /\ run.reflection_count =
          Count(run.history, "GenerateQueries")
            - (IF run.node = "GenerateQueries" THEN 0 ELSE 1)
    /\ run.query_input \in {None, Some(QueryInput(run.subject))}
    /\ run.info = IF run.extracted = None THEN None
                  ELSE Some(TheValue(run.extracted).data)
    /\ run.node = "End" => run.result = run.info

(* C15: run isolation.  When two runs for distinct subjects are            *)
(* interleaved step by step in any order, no step of one run reads or      *)
(* changes the other run's context: the suspended run's state is exactly   *)
(* what it was when it was suspended, and each run's state is one it has   *)
(* when run alone.                                                         *)
C15_RunIsolation ==
    /\ [](RunAlone(RunState) /\ RunAlone(TheValue(peer)))
    /\ [][peer' # peer =>
            /\ peer' = Some(RunState)
            /\ RunState' = TheValue(peer)]_vars

\* Both runs ended, one after two retries and three notes, the other at its
\* first verdict with one note.
C15_Witness ==
    /\ peer # None
    /\ node = "End"
    /\ TheValue(peer).node = "End"
    /\ subject # TheValue(peer).subject
    /\ reflection_count = 2
    /\ TheValue(peer).reflection_count = 0
    /\ Len(notes) = 3
    /\ Len(TheValue(peer).notes) = 1
    /\ notes[1] # TheValue(peer).notes[1]

====
